---- MODULE Spec2Model ----
(***************************************************************************)
(* Model of PyMataOSC_v4.py: the OSC -> Firmata bridge.                    *)
(*                                                                         *)
(*  - map_value and the two message handlers (note_handler, cc_handler),   *)
(*    which turn MIDI-style values into actuator commands and recalibrate  *)
(*    the servos' home/max positions;                                      *)
(*  - the process around them: start-up, the SIGINT handler that dumps the *)
(*    configuration and closes the board;                                  *)
(*  - getIPAddress2 and the WLAN/LAN classification of __main__.           *)
(*                                                                         *)
(* Numbers.  The script runs with true division, so map_value yields a     *)
(* float and int() truncates it toward zero.  The model computes with      *)
(* exact rationals <<n, d>> (d > 0) and truncates the same way; a          *)
(* division by zero raises, as ZeroDivisionError does.                     *)
(***************************************************************************)
EXTENDS Integers, Sequences, FiniteSets, TLC

VARIABLES
    config,      \* the global config: the loaded JSON tree, or None
    board,       \* the global board: "none", "open" or "closed"
    midi_min,    \* the globals midi_min, midi_max
    midi_max,
    msg,         \* the OSC message handled last (None before the first)
    out,         \* what the last handler call did, in order
    err,         \* whether the last handler call raised
    storage,     \* config.json on disk
    pc,          \* where the main program is
    stack,       \* the running signal_handler frames, innermost last
    nInt,        \* SIGINTs delivered so far
    dumps,       \* every json.dump so far: what was written, in order
    closes,      \* board.close() calls so far
    address,     \* address1 of __main__, a sequence of characters
    addressNew,  \* address2 = getIPAddress2(address1)
    addressWLAN,
    addressLAN,
    apc          \* where the address selection is

vars == <<config, board, midi_min, midi_max, msg, out, err, storage, pc, stack,
          nInt, dumps, closes, address, addressNew, addressWLAN, addressLAN, apc>>

engineVars == <<config, board, midi_min, midi_max, msg, out, err>>
procVars == <<storage, pc, stack, nInt, dumps, closes>>
addrVars == <<address, addressNew, addressWLAN, addressLAN, apc>>

\* Python's None, as a record so that it compares with the JSON tree
None == [none |-> TRUE]

-----------------------------------------------------------------------------
(* Bounds of the model *)

\* servo positions of the modelled configurations lie in -1 .. MaxPos
MaxPos == 1
\* the MIDI range of the modelled configurations is MidiLow .. MidiHigh
MidiLow == 1
MidiHigh == 4
\* stepper speeds of the modelled configurations
MaxSpeed == 6
\* SIGINTs delivered to one run of the process
MaxInterrupts == 2
\* final octets of the discovered address: 0 .. MaxOctet
MaxOctet == 255

-----------------------------------------------------------------------------
(* Exact rational arithmetic *)

\* the rational n/d (d # 0) with a positive denominator; two pairs may denote
\* the same number: Norm gives the one in lowest terms
Rat(n, d) == IF d < 0 THEN <<-n, -d>> ELSE <<n, d>>

FromInt(i) == <<i, 1>>
RAdd(p, q) == Rat(p[1] * q[2] + q[1] * p[2], p[2] * q[2])
RSub(p, q) == Rat(p[1] * q[2] - q[1] * p[2], p[2] * q[2])
RMul(p, q) == Rat(p[1] * q[1], p[2] * q[2])
RDiv(p, q) == Rat(p[1] * q[2], p[2] * q[1])
IsZero(p) == p[1] = 0

\* int(x) of a float: truncation toward zero
ToInt(p) == IF p[1] >= 0 THEN p[1] \div p[2] ELSE -((-p[1]) \div p[2])

\* map_value raises ZeroDivisionError exactly when upper = lower
MapRaises(lower, upper) == IsZero(RSub(upper, lower))

\* min + ((x - lower) / (upper - lower)) * (max - min), all rationals
map_value(x, lower, upper, min, max) ==
    RAdd(min, RMul(RDiv(RSub(x, lower), RSub(upper, lower)), RSub(max, min)))

-----------------------------------------------------------------------------
(* Commands sent to the board, and the calibration stores, as log entries *)

duty_cycle == 511

RECURSIVE GCD(_, _)
GCD(a, b) == IF b = 0 THEN a ELSE GCD(b, a % b)

\* a rational in lowest terms, the form the log keeps floats in
Norm(p) ==
    LET n == IF p[1] < 0 THEN -p[1] ELSE p[1]
        g == GCD(n, p[2])
    IN  <<p[1] \div g, p[2] \div g>>

\* Each entry: op, the pin or servo index a, the integer b that was sent or
\* stored, and x, the float b is the int() of.
\* board.analog_write(pin, int(servo_pos))
AnalogWrite(pin, servo_pos) ==
    [op |-> "analog_write", a |-> pin, b |-> ToInt(servo_pos), x |-> Norm(servo_pos)]
\* board.timerthree_set_frequency(int(stepper_speed))
SetFrequency(stepper_speed) ==
    [op |-> "timerthree_set_frequency", a |-> 0, b |-> ToInt(stepper_speed),
     x |-> Norm(stepper_speed)]
\* board.timerthree_pwm(step_pin, duty_cycle)
TimerPwm(pin, duty) ==
    [op |-> "timerthree_pwm", a |-> pin, b |-> duty, x |-> FromInt(duty)]
\* c["pos"]["home"] = int(servo_pos) / c["pos"]["max"] = int(servo_pos), i-th servo
StoreHome(i, servo_pos) ==
    [op |-> "store_home", a |-> i, b |-> ToInt(servo_pos), x |-> Norm(servo_pos)]
StoreMax(i, servo_pos) ==
    [op |-> "store_max", a |-> i, b |-> ToInt(servo_pos), x |-> Norm(servo_pos)]

\* what a handler call leaves behind: the servo list, its log, whether it raised
Result(servo, log, raised) == [servo |-> servo, log |-> log, err |-> raised]

-----------------------------------------------------------------------------
(* note_handler *)

\* ReverseDirection without the abs_min offset: abs_max - servo_pos
ReverseDirection_NoOffset(servo_pos, c) == RSub(FromInt(c.pos.abs_max), servo_pos)

\* "reverse the direction of the input": the inversion about abs_min .. abs_max
ReverseDirection(servo_pos, c) ==
    map_value(servo_pos, FromInt(c.pos.abs_min), FromInt(c.pos.abs_max),
              FromInt(c.pos.abs_max), FromInt(c.pos.abs_min))

ReverseRaises(c) == MapRaises(FromInt(c.pos.abs_min), FromInt(c.pos.abs_max))

\* NotePos mapped onto abs_min .. abs_max instead of home .. max
NotePos_AbsRange(c, velocity) ==
    map_value(FromInt(velocity), FromInt(midi_min), FromInt(midi_max),
              FromInt(c.pos.abs_min), FromInt(c.pos.abs_max))

\* the position a note's velocity asks of servo c, before any reversal
NotePos(c, velocity) ==
    map_value(FromInt(velocity), FromInt(midi_min), FromInt(midi_max),
              FromInt(c.pos.home), FromInt(c.pos.max))

\* NoteLoop with a break after the first matching servo
NoteLoop_FirstOnly(i, servo, note, velocity, log) ==
    LET hits == {j \in i .. Len(servo) : note = servo[j].note} IN
    IF hits = {} THEN Result(servo, log, FALSE)
    ELSE LET c == servo[CHOOSE h \in hits : \A g \in hits : h <= g]
             p0 == NotePos(c, velocity)
         IN  IF c.reverse_servo_direction /\ ReverseRaises(c)
             THEN Result(servo, log, TRUE)
             ELSE Result(servo,
                         Append(log, AnalogWrite(c.pwm_pin,
                                    IF c.reverse_servo_direction
                                    THEN ReverseDirection(p0, c) ELSE p0)),
                         FALSE)

\* the for loop of note_handler from the i-th servo on
RECURSIVE NoteLoop(_, _, _, _, _)
NoteLoop(i, servo, note, velocity, log) ==
    IF i > Len(servo) THEN Result(servo, log, FALSE)
    ELSE LET c == servo[i] IN
         IF note = c.note
         THEN IF c.reverse_servo_direction /\ ReverseRaises(c)
              THEN Result(servo, log, TRUE)
              ELSE LET p0 == NotePos(c, velocity)
                       servo_pos == IF c.reverse_servo_direction
                                    THEN ReverseDirection(p0, c) ELSE p0
                   IN  NoteLoop(i + 1, servo, note, velocity,
                                Append(log, AnalogWrite(c.pwm_pin, servo_pos)))
         ELSE NoteLoop(i + 1, servo, note, velocity, log)

note_handler(data) ==
    IF board # "none" /\ config # None
    THEN NoteLoop(1, config.servo, data[2], data[3], <<>>)
    ELSE IF board # "none"
         THEN Result(<<>>, <<>>, TRUE)      \* config is None: TypeError
         ELSE Result(<<>>, <<>>, FALSE)

-----------------------------------------------------------------------------
(* cc_handler *)

\* "reverse the direction of the input": ccVal mirrored in midi_min .. midi_max
InvertInput(ccVal) ==
    map_value(ccVal, FromInt(midi_min), FromInt(midi_max),
              FromInt(midi_max), FromInt(midi_min))

\* the value ccVal has after the i-th servo's branch: the assignments of
\* lines 121 and 131 are to the handler's one local, so they outlive the branch
CcValAfter(c, ccNum, ccVal) ==
    IF ccNum = c.cc.home
    THEN IF c.reverse_home_direction THEN InvertInput(ccVal) ELSE ccVal
    ELSE IF ccNum = c.cc.max
         THEN IF c.reverse_max_direction THEN InvertInput(ccVal) ELSE ccVal
         ELSE ccVal

HomePos(c, ccVal) ==
    map_value(ccVal, FromInt(midi_min), FromInt(midi_max),
              FromInt(c.pos.abs_min), FromInt(c.pos.abs_max))

MaxPosition(c, ccVal) ==
    map_value(ccVal, FromInt(midi_min), FromInt(midi_max),
              FromInt(c.pos.home), FromInt(c.pos.abs_max))

\* CcWritePos reversing the stored integer instead of the float
CcWritePos_OfStored(c, servo_pos) ==
    IF c.reverse_servo_direction
    THEN ReverseDirection(FromInt(ToInt(servo_pos)), c)
    ELSE servo_pos

\* the position a cc branch writes, after "c[pos][home] = int(servo_pos)":
\* servo_pos itself, reversed if reverse_servo_direction
CcWritePos(c, servo_pos) ==
    IF c.reverse_servo_direction THEN ReverseDirection(servo_pos, c) ELSE servo_pos

\* the for loop of cc_handler from the i-th servo on; yields the servo list,
\* the log, whether it raised, and ccVal as the loop leaves it
RECURSIVE CcLoop(_, _, _, _, _)
CcLoop(i, servo, ccNum, ccVal, log) ==
    IF i > Len(servo)
    THEN [servo |-> servo, log |-> log, err |-> FALSE, ccVal |-> ccVal]
    ELSE LET c == servo[i]
             v == CcValAfter(c, ccNum, ccVal)
         IN
         IF ccNum = c.cc.home
         THEN LET p0 == HomePos(c, v)
                  stored == [servo EXCEPT ![i].pos.home = ToInt(p0)]
                  log1 == Append(log, StoreHome(i, p0))
              IN  IF c.reverse_servo_direction /\ ReverseRaises(c)
                  THEN [servo |-> stored, log |-> log1, err |-> TRUE, ccVal |-> v]
                  ELSE CcLoop(i + 1, stored, ccNum, v,
                              Append(log1, AnalogWrite(c.pwm_pin, CcWritePos(c, p0))))
         ELSE IF ccNum = c.cc.max
         THEN LET p0 == MaxPosition(c, v)
                  stored == [servo EXCEPT ![i].pos.max = ToInt(p0)]
                  log1 == Append(log, StoreMax(i, p0))
              IN  IF c.reverse_servo_direction /\ ReverseRaises(c)
                  THEN [servo |-> stored, log |-> log1, err |-> TRUE, ccVal |-> v]
                  ELSE CcLoop(i + 1, stored, ccNum, v,
                              Append(log1, AnalogWrite(c.pwm_pin, CcWritePos(c, p0))))
         ELSE CcLoop(i + 1, servo, ccNum, ccVal, log)

\* the stepper part of cc_handler, run with the ccVal the servo loop left
StepperSpeed(stepper, ccVal) ==
    map_value(ccVal, FromInt(midi_min), FromInt(midi_max),
              FromInt(stepper.move.min_speed), FromInt(stepper.move.max_speed))

StepperLog(stepper, ccNum, ccVal) ==
    IF ccNum = stepper.cc.speed
    THEN <<SetFrequency(StepperSpeed(stepper, ccVal)),
           TimerPwm(stepper.step_pin, duty_cycle)>>
    ELSE <<>>

\* cc_handler without the "if board is not None" test
cc_handler_NoBoardTest(data) ==
    LET r == CcLoop(1, config.servo, data[2], FromInt(data[3]), <<>>)
    IN  IF r.err THEN Result(r.servo, r.log, TRUE)
        ELSE Result(r.servo, r.log \o StepperLog(config.stepper, data[2], r.ccVal),
                    FALSE)

cc_handler(data) ==
    IF board # "none" /\ config # None
    THEN LET r == CcLoop(1, config.servo, data[2], FromInt(data[3]), <<>>)
         IN  IF r.err THEN Result(r.servo, r.log, TRUE)
             ELSE Result(r.servo, r.log \o StepperLog(config.stepper, data[2], r.ccVal),
                         FALSE)
    ELSE IF board # "none"
         THEN Result(<<>>, <<>>, TRUE)      \* config is None: TypeError
         ELSE Result(<<>>, <<>>, FALSE)


-----------------------------------------------------------------------------
(* The configurations config.json may hold *)

PosRange == (-1) .. MaxPos
MidiRange == MidiLow .. MidiHigh

\* positions in the intended steady state abs_min <= home <= max <= abs_max
Positions ==
    {[home |-> h, max |-> m, abs_min |-> lo, abs_max |-> hi] :
        <<lo, h, m, hi>> \in {q \in PosRange \X PosRange \X PosRange \X PosRange :
                                 q[1] <= q[2] /\ q[2] <= q[3] /\ q[3] <= q[4]}}

\* the note and cc numbers the servos may be given: the second servo either
\* shares all of the first one's or has its own
FirstKeys == [note |-> 60, home |-> 20, max |-> 21]
SecondKeys == {FirstKeys, [note |-> 61, home |-> 22, max |-> 23]}

Servo(pin, keys, rs, rh, rm, pos) ==
    [note |-> keys.note, pwm_pin |-> pin,
     cc |-> [home |-> keys.home, max |-> keys.max],
     reverse_servo_direction |-> rs,
     reverse_home_direction |-> rh,
     reverse_max_direction |-> rm,
     pos |-> pos]

\* a servo spanning the whole position range, calibrated to its ends
FullRange == [home |-> -1, max |-> MaxPos, abs_min |-> -1, abs_max |-> MaxPos]
\* a servo whose range is one point
PointRange == [home |-> 0, max |-> 0, abs_min |-> 0, abs_max |-> 0]

\* one servo: every steady-state calibration, every combination of the flags
OneServo ==
    {<<Servo(9, FirstKeys, rs, rh, rm, pos)>> :
        rs \in BOOLEAN, rh \in BOOLEAN, rm \in BOOLEAN, pos \in Positions}

\* two servos, every combination of the flags; the second spans the whole
\* range, the first does or is a point
TwoServos ==
    {<<Servo(9, FirstKeys, f[1], f[2], f[3], pos),
       Servo(10, keys, g[1], g[2], g[3], FullRange)>> :
        f \in BOOLEAN \X BOOLEAN \X BOOLEAN,
        g \in BOOLEAN \X BOOLEAN \X BOOLEAN,
        pos \in {FullRange, PointRange},
        keys \in SecondKeys}

ServoLists == OneServo \cup TwoServos

\* the stepper's cc number is one a servo may use too
Steppers ==
    {[direction_pin |-> 4, step_pin |-> 5,
      cc |-> [speed |-> n],
      move |-> [direction |-> 1, min_speed |-> 0, max_speed |-> MaxSpeed]] :
        n \in {20, 21, 23}}

Configs ==
    {[midi_min |-> MidiLow, midi_max |-> MidiHigh, led_pin |-> 13,
      servo |-> sl, stepper |-> st] : sl \in ServoLists, st \in Steppers}

\* the messages an OSC client may send: [channel, note, velocity] to /note and
\* [channel, ccNumber, ccValue] to /cc, values within the MIDI range
NoteMessages ==
    {[addr |-> "/note", data |-> <<0, n, v>>] : n \in {60, 61}, v \in MidiRange}
CcMessages ==
    {[addr |-> "/cc", data |-> <<0, n, v>>] : n \in {20, 21, 22, 23}, v \in MidiRange}

-----------------------------------------------------------------------------
(* The handlers as actions: the OSC server calls them with one message *)

\* ConfigAfter with a validation that puts max back to home where max < home
ConfigAfter_Validated(r) ==
    IF board # "none" /\ config # None
    THEN [config EXCEPT !.servo =
            [i \in 1 .. Len(r.servo) |->
                IF r.servo[i].pos.max < r.servo[i].pos.home
                THEN [r.servo[i] EXCEPT !.pos.max = r.servo[i].pos.home]
                ELSE r.servo[i]]]
    ELSE config

\* the config tree after a handler call that left the servo list as r.servo
ConfigAfter(r) ==
    IF board # "none" /\ config # None
    THEN [config EXCEPT !.servo = r.servo]
    ELSE config

NoteHandler ==
    /\ pc = "serve"
    /\ stack = <<>>
    /\ \E m \in NoteMessages :
          LET r == note_handler(m.data) IN
          /\ msg' = m
          /\ out' = r.log
          /\ err' = r.err
          /\ config' = ConfigAfter(r)
    /\ pc' = "handled"
    /\ UNCHANGED <<board, midi_min, midi_max>>
    /\ UNCHANGED <<storage, stack, nInt, dumps, closes>>
    /\ UNCHANGED addrVars

CcHandler ==
    /\ pc = "serve"
    /\ stack = <<>>
    /\ \E m \in CcMessages :
          LET r == cc_handler(m.data) IN
          /\ msg' = m
          /\ out' = r.log
          /\ err' = r.err
          /\ config' = ConfigAfter(r)
    /\ pc' = "handled"
    /\ UNCHANGED <<board, midi_min, midi_max>>
    /\ UNCHANGED <<storage, stack, nInt, dumps, closes>>
    /\ UNCHANGED addrVars

\* "while not s.timed_out: s.handle_request()": back to waiting for a message
HandleRequest ==
    /\ pc = "handled"
    /\ stack = <<>>
    /\ pc' = "serve"
    /\ msg' = None
    /\ out' = <<>>
    /\ err' = FALSE
    /\ UNCHANGED <<config, board, midi_min, midi_max>>
    /\ UNCHANGED <<storage, stack, nInt, dumps, closes>>
    /\ UNCHANGED addrVars

-----------------------------------------------------------------------------
(* The serve loop: the states of a process that started up successfully     *)
(* (configuration loaded, board connected, midi_min/midi_max taken from the  *)
(* configuration) and is handling OSC messages                               *)

AddrOff ==
    /\ address = <<>>
    /\ addressNew = <<>>
    /\ addressWLAN = <<>>
    /\ addressLAN = <<>>
    /\ apc = "off"

Serving(b) ==
    /\ config \in Configs
    /\ board = b
    /\ midi_min = config.midi_min
    /\ midi_max = config.midi_max
    /\ msg = None
    /\ out = <<>>
    /\ err = FALSE
    /\ storage = config
    /\ pc = "serve"
    /\ stack = <<>>
    /\ nInt = 0
    /\ dumps = <<>>
    /\ closes = 0
    /\ AddrOff

Init == Serving("open")

Next == NoteHandler \/ CcHandler \/ HandleRequest

Spec == Init /\ [][Next]_vars

\* the handlers called as functions, the serial client connected or not
InitHandlers == \E b \in {"none", "open"} : Serving(b)

SpecHandlers == InitHandlers /\ [][Next]_vars

-----------------------------------------------------------------------------
(* The process: __main__ from the reading of config.json to the serve loop,  *)
(* and SIGINT.  A Python signal handler runs in the main thread, between two *)
(* of its instructions: while signal_handler frames are on the stack the     *)
(* main program stands still, and a further SIGINT may interrupt a running   *)
(* handler in turn.  sys.exit raises SystemExit, which unwinds every frame   *)
(* and ends the process.                                                     *)

\* the values of the globals midi_min and midi_max before __main__ sets them
DefaultMidiMin == 0
DefaultMidiMax == 127

\* the configurations of the process runs: one servo spanning the whole range
ProcessConfigs ==
    {c \in Configs : /\ Len(c.servo) = 1
                     /\ c.servo[1].pos = FullRange
                     /\ c.stepper.cc.speed = 23}

\* config.json right after open(..., 'w'): empty
Truncated == [truncated |-> TRUE]

Ended == pc \in {"exited", "killed", "crashed"}
HandlerInstalled == pc \notin {"start", "loaded"}
Top == stack[Len(stack)]
SetTop(label) == [stack EXCEPT ![Len(stack)] = label]

InitProcess ==
    /\ storage \in ProcessConfigs
    /\ config = None
    /\ board = "none"
    /\ midi_min = DefaultMidiMin
    /\ midi_max = DefaultMidiMax
    /\ msg = None
    /\ out = <<>>
    /\ err = FALSE
    /\ pc = "start"
    /\ stack = <<>>
    /\ nInt = 0
    /\ dumps = <<>>
    /\ closes = 0
    /\ AddrOff

\* config = json.load(config_file)
LoadConfig ==
    /\ pc = "start"
    /\ stack = <<>>
    /\ config' = storage
    /\ pc' = "loaded"
    /\ UNCHANGED <<board, midi_min, midi_max, msg, out, err>>
    /\ UNCHANGED <<storage, stack, nInt, dumps, closes>>
    /\ UNCHANGED addrVars

\* signal.signal(signal.SIGINT, signal_handler)
InstallHandler ==
    /\ pc = "loaded"
    /\ stack = <<>>
    /\ pc' = "installed"
    /\ UNCHANGED engineVars
    /\ UNCHANGED <<storage, stack, nInt, dumps, closes>>
    /\ UNCHANGED addrVars

\* board = pm("/dev/ttyATH0") succeeds
ConnectBoard ==
    /\ pc = "installed"
    /\ stack = <<>>
    /\ board' = "open"
    /\ pc' = "connected"
    /\ UNCHANGED <<config, midi_min, midi_max, msg, out, err>>
    /\ UNCHANGED <<storage, stack, nInt, dumps, closes>>
    /\ UNCHANGED addrVars

\* board = pm("/dev/ttyATH0") raises: the except clause calls sys.exit(0)
ConnectFails ==
    /\ pc = "installed"
    /\ stack = <<>>
    /\ pc' = "exited"
    /\ UNCHANGED engineVars
    /\ UNCHANGED <<storage, stack, nInt, dumps, closes>>
    /\ UNCHANGED addrVars

\* the rest of the start-up: midi_min, midi_max from the configuration, the
\* pins and the timer, the address, the OSC server and its handlers
Setup ==
    /\ pc = "connected"
    /\ stack = <<>>
    /\ midi_min' = config.midi_min
    /\ midi_max' = config.midi_max
    /\ pc' = "serve"
    /\ UNCHANGED <<config, board, msg, out, err>>
    /\ UNCHANGED <<storage, stack, nInt, dumps, closes>>
    /\ UNCHANGED addrVars

\* the start-up dies of an exception nothing catches: the socket call of
\* getIPAddress, int(address[-3:]), the binding of the server
SetupFails ==
    /\ pc = "connected"
    /\ stack = <<>>
    /\ pc' = "crashed"
    /\ UNCHANGED engineVars
    /\ UNCHANGED <<storage, stack, nInt, dumps, closes>>
    /\ UNCHANGED addrVars

\* SIGINT before signal.signal: Python's default handler raises
\* KeyboardInterrupt, which nothing catches
InterruptDefault ==
    /\ ~Ended
    /\ ~HandlerInstalled
    /\ nInt < MaxInterrupts
    /\ nInt' = nInt + 1
    /\ pc' = "killed"
    /\ UNCHANGED engineVars
    /\ UNCHANGED <<storage, stack, dumps, closes>>
    /\ UNCHANGED addrVars

\* SIGINT once signal_handler is installed: a new frame, on top of whatever
\* is running, a signal_handler frame included
Interrupt ==
    /\ ~Ended
    /\ HandlerInstalled
    /\ nInt < MaxInterrupts
    /\ nInt' = nInt + 1
    /\ stack' = Append(stack, "test_config")
    /\ UNCHANGED engineVars
    /\ UNCHANGED <<storage, pc, dumps, closes>>
    /\ UNCHANGED addrVars

\* SignalTestConfig taking the branch that skips the dump whatever config is
SignalTestConfig_SkipsDump ==
    /\ ~Ended
    /\ stack # <<>>
    /\ Top = "test_config"
    /\ stack' = SetTop("test_board")
    /\ UNCHANGED engineVars
    /\ UNCHANGED <<storage, pc, nInt, dumps, closes>>
    /\ UNCHANGED addrVars

\* "if config is not None:"
SignalTestConfig ==
    /\ ~Ended
    /\ stack # <<>>
    /\ Top = "test_config"
    /\ stack' = SetTop(IF config # None THEN "open" ELSE "test_board")
    /\ UNCHANGED engineVars
    /\ UNCHANGED <<storage, pc, nInt, dumps, closes>>
    /\ UNCHANGED addrVars

\* "with open(os.path.join(pathname, filename), 'w') as config_file:"
SignalOpen ==
    /\ ~Ended
    /\ stack # <<>>
    /\ Top = "open"
    /\ storage' = Truncated
    /\ stack' = SetTop("dump")
    /\ UNCHANGED engineVars
    /\ UNCHANGED <<pc, nInt, dumps, closes>>
    /\ UNCHANGED addrVars

\* json.dump(config, config_file, sort_keys=True, indent=4)
SignalDump ==
    /\ ~Ended
    /\ stack # <<>>
    /\ Top = "dump"
    /\ storage' = config
    /\ dumps' = Append(dumps, config)
    /\ stack' = SetTop("assign")
    /\ UNCHANGED engineVars
    /\ UNCHANGED <<pc, nInt, closes>>
    /\ UNCHANGED addrVars

\* "config = json.dump(...)": json.dump returns None
SignalAssign ==
    /\ ~Ended
    /\ stack # <<>>
    /\ Top = "assign"
    /\ config' = None
    /\ stack' = SetTop("test_board")
    /\ UNCHANGED <<board, midi_min, midi_max, msg, out, err>>
    /\ UNCHANGED <<storage, pc, nInt, dumps, closes>>
    /\ UNCHANGED addrVars

\* "if board is not None: board.close()"
SignalClose ==
    /\ ~Ended
    /\ stack # <<>>
    /\ Top = "test_board"
    /\ board' = IF board # "none" THEN "closed" ELSE board
    /\ closes' = IF board # "none" THEN closes + 1 ELSE closes
    /\ stack' = SetTop("exit")
    /\ UNCHANGED <<config, midi_min, midi_max, msg, out, err>>
    /\ UNCHANGED <<storage, pc, nInt, dumps>>
    /\ UNCHANGED addrVars

\* sys.exit(0)
SignalExit ==
    /\ ~Ended
    /\ stack # <<>>
    /\ Top = "exit"
    /\ stack' = <<>>
    /\ pc' = "exited"
    /\ UNCHANGED engineVars
    /\ UNCHANGED <<storage, nInt, dumps, closes>>
    /\ UNCHANGED addrVars

NextProcess ==
    \/ LoadConfig
    \/ InstallHandler
    \/ ConnectBoard
    \/ ConnectFails
    \/ Setup
    \/ SetupFails
    \/ NoteHandler
    \/ CcHandler
    \/ HandleRequest
    \/ InterruptDefault
    \/ Interrupt
    \/ SignalTestConfig
    \/ SignalOpen
    \/ SignalDump
    \/ SignalAssign
    \/ SignalClose
    \/ SignalExit

SpecProcess == InitProcess /\ [][NextProcess]_vars

-----------------------------------------------------------------------------
(* The address selection of __main__: address1 is what getIPAddress found,   *)
(* address2 = getIPAddress2(address1), then the WLAN/LAN classification.     *)
(* A Python string is modelled as the sequence of its characters.            *)

Digits == <<"0", "1", "2", "3", "4", "5", "6", "7", "8", "9">>
IsDigit(ch) == \E d \in 1 .. 10 : Digits[d] = ch
DigitValue(ch) == (CHOOSE d \in 1 .. 10 : Digits[d] = ch) - 1

\* str(n) of an integer n >= 0
RECURSIVE Str(_)
Str(n) == IF n < 10 THEN <<Digits[n + 1]>> ELSE Str(n \div 10) \o <<Digits[(n % 10) + 1]>>

\* the literal '192.168.1.'
Prefix == <<"1", "9", "2", ".", "1", "6", "8", ".", "1", ".">>

\* a[-3:]: the last three characters (the whole string if it is shorter)
LastThree(a) == IF Len(a) <= 3 THEN a ELSE SubSeq(a, Len(a) - 2, Len(a))

\* int(t) raises ValueError unless t is made of digits (the strings met here
\* hold digits and dots only)
IntRaises(t) == t = <<>> \/ \E k \in 1 .. Len(t) : ~IsDigit(t[k])

\* int(t) of a string of digits
RECURSIVE IntOf(_)
IntOf(t) ==
    IF t = <<>> THEN 0
    ELSE 10 * IntOf(SubSeq(t, 1, Len(t) - 1)) + DigitValue(t[Len(t)])

ValueError == <<"ValueError">>

\* getIPAddress2 with the two branches of the parity test exchanged
getIPAddress2_ParitySwapped(a) ==
    IF IntRaises(LastThree(a)) THEN ValueError
    ELSE LET endNum == IntOf(LastThree(a))
             endNumNew == IF endNum % 2 = 0 THEN endNum - 1 ELSE endNum + 1
         IN  Prefix \o Str(endNumNew)

getIPAddress2(a) ==
    IF IntRaises(LastThree(a)) THEN ValueError
    ELSE LET endNum == IntOf(LastThree(a))
             endNumNew == IF endNum % 2 = 0 THEN endNum + 1 ELSE endNum - 1
         IN  Prefix \o Str(endNumNew)

\* the address getIPAddress may return: 192.168.1.n
Address(n) == Prefix \o Str(n)

InitAddress ==
    /\ config = None
    /\ board = "open"
    /\ midi_min = DefaultMidiMin
    /\ midi_max = DefaultMidiMax
    /\ msg = None
    /\ out = <<>>
    /\ err = FALSE
    /\ storage = None
    /\ pc = "connected"
    /\ stack = <<>>
    /\ nInt = 0
    /\ dumps = <<>>
    /\ closes = 0
    /\ address \in {Address(n) : n \in 0 .. MaxOctet}
    /\ addressNew = <<>>
    /\ addressWLAN = <<>>
    /\ addressLAN = <<>>
    /\ apc = "address1"

\* address2 = getIPAddress2(address1); a ValueError ends the start-up
PairAddress ==
    /\ apc = "address1"
    /\ LET r == getIPAddress2(address) IN
       IF r = ValueError
       THEN /\ apc' = "failed"
            /\ UNCHANGED addressNew
       ELSE /\ apc' = "address2"
            /\ addressNew' = r
    /\ UNCHANGED <<address, addressWLAN, addressLAN>>
    /\ UNCHANGED engineVars
    /\ UNCHANGED procVars

\* "if int(address1[-3:]) % 2 == 0: ... else: ..."
ClassifyAddresses ==
    /\ apc = "address2"
    /\ IF IntOf(LastThree(address)) % 2 = 0
       THEN /\ addressWLAN' = address
            /\ addressLAN' = addressNew
       ELSE /\ addressWLAN' = addressNew
            /\ addressLAN' = address
    /\ apc' = "classified"
    /\ UNCHANGED <<address, addressNew>>
    /\ UNCHANGED engineVars
    /\ UNCHANGED procVars

NextAddress == PairAddress \/ ClassifyAddresses

SpecAddress == InitAddress /\ [][NextAddress]_vars

-----------------------------------------------------------------------------
(* Properties of the handlers                                                *)

Loaded == config # None
Servos == config.servo
Handled(a) == pc = "handled" /\ msg # None /\ msg.addr = a

\* the analog writes of a log that went to pin
WritesTo(log, pin) == SelectSeq(log, LAMBDA e : e.op = "analog_write" /\ e.a = pin)

\* the i-th servo is one whose reversal raises ZeroDivisionError
Degenerate(c) == c.reverse_servo_direction /\ c.pos.abs_min = c.pos.abs_max

\* the note loop gets to the i-th servo: no matching servo before it raised
NoteReaches(i, note) ==
    \A j \in 1 .. (i - 1) : ~(Servos[j].note = note /\ Degenerate(Servos[j]))

\* C1: every servo write a handler emits carries a value within abs_min ..
\* abs_max of the servo it goes to, whatever the reverse flags are.
C1_WritesWithinAbsoluteRange ==
    Loaded =>
    \A k \in 1 .. Len(out) :
        out[k].op = "analog_write" =>
        \A i \in 1 .. Len(Servos) :
            Servos[i].pwm_pin = out[k].a =>
            /\ Servos[i].pos.abs_min <= out[k].b
            /\ out[k].b <= Servos[i].pos.abs_max

\* C1 witness: a note moved a reversed servo whose calibration has been
\* changed to max < home.
C1_Witness ==
    /\ Handled("/note")
    /\ \E i \in 1 .. Len(Servos) :
          /\ Servos[i].reverse_servo_direction
          /\ Servos[i].pos.max < Servos[i].pos.home
          /\ Servos[i].pos.abs_min < Servos[i].pos.abs_max
          /\ Len(WritesTo(out, Servos[i].pwm_pin)) = 1

NoteTargets(note) ==
    SelectSeq([i \in 1 .. Len(Servos) |-> i],
              LAMBDA i : Servos[i].note = note /\ NoteReaches(i + 1, note))

\* C3 as stated: of several servos with the message's note only the first
\* in list order gets a write.
C3_OnlyFirstMatchWritten ==
    Handled("/note") =>
    \A i \in 1 .. Len(Servos) :
        (/\ Servos[i].note = msg.data[2]
         /\ \E j \in 1 .. (i - 1) : Servos[j].note = msg.data[2])
        => WritesTo(out, Servos[i].pwm_pin) = <<>>

\* C3 amended: note_handler writes once to every servo with the message's
\* note, in list order, the later ones included; the loop has no early exit
\* and ends early only where a reversal raises.
C3_EveryMatchWritten ==
    Handled("/note") =>
    LET t == NoteTargets(msg.data[2]) IN
    /\ Len(out) = Len(t)
    /\ \A k \in 1 .. Len(t) :
          /\ out[k].op = "analog_write"
          /\ out[k].a = Servos[t[k]].pwm_pin

\* C3 witness: one note wrote to two servos.
C3_Witness ==
    /\ Handled("/note")
    /\ Len(Servos) = 2
    /\ Servos[1].note = msg.data[2]
    /\ Servos[2].note = msg.data[2]
    /\ Len(out) = 2
    /\ out[1].a = Servos[1].pwm_pin
    /\ out[2].a = Servos[2].pwm_pin


\* the value the claims expect a cc message's value to be used as for a servo
\* branch with reverse flag r: midi_min + midi_max - ccValue if r, else ccValue
Mirrored(r, ccValue) == IF r THEN midi_min + midi_max - ccValue ELSE ccValue

\* map_value(v, midi_min, midi_max, lo, hi) of integers, truncated
MapInt(v, lo, hi) ==
    ToInt(RAdd(FromInt(lo),
               RMul(RDiv(FromInt(v - midi_min), FromInt(midi_max - midi_min)),
                    FromInt(hi - lo))))

\* C2 as stated: after a cc message every servo whose cc.home is the message's
\* number has home = int(map_value(v, midi_min, midi_max, abs_min, abs_max)),
\* v being the message's value, mirrored if that servo's own
\* reverse_home_direction is set, whatever the other servos' flags are.
C2_HomeFromOwnFlagOnly ==
    (Handled("/cc") /\ ~err) =>
    \A i \in 1 .. Len(Servos) :
        LET c == Servos[i] IN
        c.cc.home = msg.data[2] =>
        c.pos.home = MapInt(Mirrored(c.reverse_home_direction, msg.data[3]),
                            c.pos.abs_min, c.pos.abs_max)

\* C5 as stated: a cc message with the stepper's number sets the timer
\* frequency to int(map_value(ccValue, midi_min, midi_max, min_speed,
\* max_speed)) of the message's own value and then the PWM duty cycle 511,
\* whatever servos match the same number.
C5_FrequencyFromMessageValue ==
    (Handled("/cc") /\ ~err /\ msg.data[2] = config.stepper.cc.speed) =>
    /\ Len(out) >= 2
    /\ out[Len(out) - 1].op = "timerthree_set_frequency"
    /\ out[Len(out) - 1].b = MapInt(msg.data[3], config.stepper.move.min_speed,
                                    config.stepper.move.max_speed)
    /\ out[Len(out)].op = "timerthree_pwm"
    /\ out[Len(out)].a = config.stepper.step_pin
    /\ out[Len(out)].b = 511

\* the log entry k stores a calibration value
IsStore(e) == e.op \in {"store_home", "store_max"}

\* C4 as stated: in a cc log every servo write comes right after that servo's
\* store, and carries the stored value, or abs_min + abs_max - stored value
\* if reverse_servo_direction is set.
C4_WriteIsInversionOfStored ==
    Handled("/cc") =>
    \A k \in 1 .. Len(out) :
        out[k].op = "analog_write" =>
        /\ k > 1
        /\ IsStore(out[k - 1])
        /\ LET c == Servos[out[k - 1].a] IN
           /\ out[k].a = c.pwm_pin
           /\ out[k].b = IF c.reverse_servo_direction
                         THEN c.pos.abs_min + c.pos.abs_max - out[k - 1].b
                         ELSE out[k - 1].b

\* C4 amended: in a cc log every servo write comes right after that servo's
\* store; the store keeps int(p) of the mapped position p, and the write
\* carries int(p) too if reverse_servo_direction is clear, and
\* int(abs_min + abs_max - p) if it is set: the inversion is taken of the
\* untruncated p, so the write differs from abs_min + abs_max - stored value
\* by at most 1 and equals it when p is an integer.  The stored value is the
\* servo's home (resp. max) when the handler returns.
C4_WriteIsInversionOfUntruncated ==
    Handled("/cc") =>
    \A k \in 1 .. Len(out) :
        out[k].op = "analog_write" =>
        /\ k > 1
        /\ IsStore(out[k - 1])
        /\ LET c == Servos[out[k - 1].a]
               p == out[k - 1].x
               mirror == c.pos.abs_min + c.pos.abs_max
               d == out[k].b - (mirror - out[k - 1].b)
           IN
           /\ out[k].a = c.pwm_pin
           /\ out[k - 1].b = ToInt(p)
           /\ out[k - 1].b = IF out[k - 1].op = "store_home"
                             THEN c.pos.home ELSE c.pos.max
           /\ ~c.reverse_servo_direction => out[k].b = out[k - 1].b
           /\ c.reverse_servo_direction =>
                 /\ out[k].b = ToInt(RSub(FromInt(mirror), p))
                 /\ d \in {-1, 0, 1}
                 /\ (p[2] = 1 => d = 0)

\* C4 witness: a reversed servo was calibrated to a position that is not an
\* integer, and written to.
C4_Witness ==
    /\ Handled("/cc")
    /\ \E k \in 2 .. Len(out) :
          /\ out[k].op = "analog_write"
          /\ IsStore(out[k - 1])
          /\ Servos[out[k - 1].a].reverse_servo_direction
          /\ out[k - 1].x[2] # 1
          /\ out[k].b # Servos[out[k - 1].a].pos.abs_min
                         + Servos[out[k - 1].a].pos.abs_max - out[k - 1].b


\* message m selects nothing: no servo has its note (a /note message); no
\* servo has its number as cc.home or cc.max, nor has the stepper (a /cc one)
MatchesNothing(m) ==
    IF m.addr = "/note"
    THEN \A i \in 1 .. Len(Servos) : Servos[i].note # m.data[2]
    ELSE /\ \A i \in 1 .. Len(Servos) :
               /\ Servos[i].cc.home # m.data[2]
               /\ Servos[i].cc.max # m.data[2]
         /\ config.stepper.cc.speed # m.data[2]

\* C9: a message that selects nothing, and any message handled while board
\* is None, sends no command, changes no field of the configuration and
\* raises nothing.
C9_NoMatchNoEffect ==
    [][(pc = "serve" /\ pc' = "handled" /\ (board = "none" \/ MatchesNothing(msg'))) =>
         /\ out' = <<>>
         /\ config' = config
         /\ ~err'
      ]_vars

\* C9 witness: with board None, a cc message carrying a servo's home number
\* was handled and left the calibration as loaded.
C9_Witness ==
    /\ board = "none"
    /\ Handled("/cc")
    /\ Servos[1].cc.home = msg.data[2]
    /\ Servos[1].pos.abs_min < Servos[1].pos.abs_max
    /\ out = <<>>
    /\ config = storage

\* the calibration of the i-th servo is out of order: max < home
OutOfOrder(i) == Servos[i].pos.max < Servos[i].pos.home

\* C10 as stated: once a servo has max < home, no later handler step puts
\* home <= max back.
C10_NeverRestored ==
    [][\A i \in 1 .. Len(Servos) : OutOfOrder(i) => OutOfOrder(i)']_vars

\* C10 amended: abs_min <= home <= max <= abs_max is not kept: calibration
\* messages take a servo to max < home, no handler checks or rejects that, and
\* it lasts through every /note message and every /cc message whose number is
\* neither that servo's cc.home nor its cc.max; home and max change only
\* where a calibration stores them, and a cc.max store always leaves
\* home <= max.
C10_OutOfOrderUntilRecalibrated ==
    [][(pc = "serve" /\ pc' = "handled") =>
         \A i \in 1 .. Len(Servos) :
            LET c == Servos[i] IN
            /\ (OutOfOrder(i) /\ ~(msg'.addr = "/cc" /\ msg'.data[2] \in {c.cc.home, c.cc.max}))
                  => (OutOfOrder(i)' /\ Servos'[i].pos = c.pos)
            /\ (\E k \in 1 .. Len(out') : out'[k].op = "store_max" /\ out'[k].a = i)
                  => ~OutOfOrder(i)'
            /\ Servos'[i].pos.max # c.pos.max
                  => \E k \in 1 .. Len(out') : out'[k].op = "store_max" /\ out'[k].a = i
            /\ Servos'[i].pos.home # c.pos.home
                  => \E k \in 1 .. Len(out') : out'[k].op = "store_home" /\ out'[k].a = i
      ]_vars

\* C10 witness: a cc.home message has just taken a servo that was loaded in
\* order to max < home, without raising.
C10_Witness ==
    /\ Handled("/cc")
    /\ ~err
    /\ \E i \in 1 .. Len(Servos) :
          /\ msg.data[2] = Servos[i].cc.home
          /\ storage.servo[i].pos.home <= storage.servo[i].pos.max
          /\ OutOfOrder(i)
          /\ Servos[i].pos.max # storage.servo[i].pos.max


-----------------------------------------------------------------------------
(* Properties of the process                                                 *)

\* C7 as stated: once loaded, the configuration is written exactly once over
\* the life of the process, the board is closed only after that write, and the
\* process exits only after the close, repeated interrupts included.
C7_WrittenExactlyOnce ==
    /\ Len(dumps) <= 1
    /\ closes > 0 => Len(dumps) = 1
    /\ pc = "exited" => (Len(dumps) = 1 /\ closes >= 1)

\* what holds of the dumps, the close and the exit in every state
DumpState ==
    /\ Len(dumps) <= nInt
    /\ \A j, k \in 1 .. Len(dumps) : dumps[j] = dumps[k]
    /\ closes > 0 => Len(dumps) >= 1
    /\ (pc = "exited" /\ board # "none") => (board = "closed" /\ Len(dumps) >= 1)
    /\ (pc = "exited" /\ nInt = 0) => (board = "none" /\ dumps = <<>>)

\* what holds of every step that touches config.json or the configuration
DumpStep ==
    /\ (storage' # storage \/ dumps' # dumps) =>
          /\ stack # <<>>
          /\ config # None
          /\ \/ (storage' = Truncated /\ dumps' = dumps)
             \/ (storage' = config /\ dumps' = Append(dumps, config))
    /\ (stack # <<>> /\ config' # config) => config' = None
    /\ (board' # board /\ board # "none") => (stack # <<>> /\ Len(dumps) >= 1)

\* C7 amended: config.json is written only by signal_handler, never by
\* note_handler, cc_handler or the start-up; every write stores the in-memory
\* configuration as it stands at the interrupt, so all writes store the same
\* calibration, and there are at most as many as interrupts; the board is
\* closed only after a write, and a process that connected the board exits
\* only after the write and the close.  It is not written exactly once: not
\* at all when the process ends without a handled interrupt (sys.exit after a
\* failed connection, an exception during start-up, an interrupt before the
\* handler is installed), and again when a second interrupt arrives inside
\* signal_handler before "config = ..." has cleared config.
C7_DumpOnlyInSignalHandler == [](DumpState) /\ [][DumpStep]_vars

\* C7 witness: a serving process was interrupted after a calibration, dumped
\* the changed calibration once, closed the board and exited.
C7_Witness ==
    /\ pc = "exited"
    /\ board = "closed"
    /\ Len(dumps) = 1
    /\ storage = dumps[1]
    /\ storage.servo[1].pos.home # FullRange.home
    /\ config = None

-----------------------------------------------------------------------------
(* Properties of the address selection                                       *)

\* the final octet paired with n: n + 1 if n is even, n - 1 if n is odd
Paired(n) == IF n % 2 = 0 THEN n + 1 ELSE n - 1
EvenOf(n) == IF n % 2 = 0 THEN n ELSE n - 1

\* what the claim says of the discovered address 192.168.1.n once address2
\* is there, and once the two are classified
PairedAndClassified(n) ==
    /\ apc # "failed"
    /\ apc \in {"address2", "classified"} =>
          /\ addressNew = Address(Paired(n))
          /\ getIPAddress2(addressNew) = address
    /\ apc = "classified" =>
          /\ addressWLAN = Address(EvenOf(n))
          /\ addressLAN = Address(EvenOf(n) + 1)

\* C8 as stated: for every final octet n the paired address is 192.168.1.(n+1)
\* for even n and 192.168.1.(n-1) for odd n, pairing the paired address gives
\* the discovered one back, and WLAN is the even address, LAN the odd one.
C8_PairingForEveryOctet ==
    \A n \in 0 .. MaxOctet : address = Address(n) => PairedAndClassified(n)

\* C8 amended: the same, for the final octets of three digits, 100 and up
\* (the addresses the script expects: "even numbers starting at 100"); for
\* a final octet below 100 address[-3:] holds a dot, int() raises ValueError
\* and no address is paired.
C8_PairingForThreeDigitOctets ==
    \A n \in 0 .. MaxOctet :
        address = Address(n) =>
        IF n >= 100 THEN PairedAndClassified(n)
        ELSE /\ apc \in {"address1", "failed"}
             /\ getIPAddress2(address) = ValueError

\* C8 witness: an odd address was discovered, paired and classified as LAN.
C8_Witness ==
    /\ apc = "classified"
    /\ address = Address(101)
    /\ addressNew = Address(100)
    /\ addressWLAN = Address(100)
    /\ addressLAN = Address(101)


====
